---- MODULE Spec2Model ----
(***************************************************************************)
(* Model of the Admin-Client task manager (jpimen/Task-Manager).           *)
(*                                                                         *)
(* The state is the browser's localStorage, the AuthService singleton, the *)
(* App object, the page's DOM (which screens are displayed and which task  *)
(* items the two task lists hold) and every ViewModel/View pair that was   *)
(* ever constructed: a View registers its listeners on the page's elements *)
(* in bindEvents and nothing ever removes them, so a View stays wired to   *)
(* the page after App.handleLogout has dropped its reference to it.        *)
(*                                                                         *)
(* JavaScript values are modelled as follows.                              *)
(*   string (title, description, search text)  a sequence of characters    *)
(*   Date object                               <<"Date", ms>>              *)
(*   ISO-8601 string (toISOString, form date)  <<"ISO", ms>>               *)
(*   null in a date field                      <<"null", 0>>               *)
(*   null in an id field                       "null"                      *)
(*   task id 'task_<ms>_<random>'              <<"task", ms, random>>      *)
(*   an object                                 a record; a property that   *)
(*                                             is undefined is absent      *)
(***************************************************************************)
EXTENDS Integers, Sequences, FiniteSets, TLC

\* ------------------------------------------------------------------ bounds
MaxTasks == 2
MaxSessions == 2
MaxViews == 3
MaxTime == 1
MaxRandom == 0
MaxClock == 600
ClockStep == 150
SEARCH_DELAY == 300

\* --------------------------------------------------------------- constants
TaskPriority == [LOW |-> "low", MEDIUM |-> "medium", HIGH |-> "high"]
TaskStatus == [PENDING |-> "pending", IN_PROGRESS |-> "in_progress", COMPLETED |-> "completed"]
TaskStatusValues == {TaskStatus.PENDING, TaskStatus.IN_PROGRESS, TaskStatus.COMPLETED}
UserRole == [ADMIN |-> "admin", CLIENT |-> "client"]
DEFAULT_USERS ==
    << [id |-> "admin_001", role |-> UserRole.ADMIN],
       [id |-> "client_001", role |-> UserRole.CLIENT],
       [id |-> "client_002", role |-> UserRole.CLIENT],
       [id |-> "client_003", role |-> UserRole.CLIENT] >>

Null == "null"
NullDate == <<"null", 0>>
NoTask == <<>>
DateOf(ms) == <<"Date", ms>>
IsoOf(ms) == <<"ISO", ms>>

\* ----------------------------------------------------------------- helpers
Range(s) == {s[i] : i \in 1..Len(s)}

\* Array.prototype.filter
Filter(s, Test(_)) == SelectSeq(s, Test)

Has(obj, field) == field \in DOMAIN obj

\* String.prototype.trim on a sequence of characters
RECURSIVE TrimStart(_)
TrimStart(s) == IF s # <<>> /\ Head(s) = " " THEN TrimStart(Tail(s)) ELSE s
RECURSIVE TrimEnd(_)
TrimEnd(s) == IF s # <<>> /\ s[Len(s)] = " " THEN TrimEnd(SubSeq(s, 1, Len(s) - 1)) ELSE s
trim(s) == TrimEnd(TrimStart(s))

\* new Date(x): of an ISO string or of a Date
NewDate(x) == DateOf(x[2])
\* a JavaScript value used as a condition, for the date fields
Truthy(d) == d # NullDate

\* -------------------------------------------------------------- Task model
\* new Task({...}): completedAt always starts null
Task(id, title, description, status, assignedClientId, createdBy, createdAt, dueDate, priority) ==
    [id |-> id, title |-> title, description |-> description, status |-> status,
     assignedClientId |-> assignedClientId, createdBy |-> createdBy,
     createdAt |-> createdAt, dueDate |-> dueDate, priority |-> priority,
     completedAt |-> NullDate]

toggleStatus(task, t) ==
    IF task.status = TaskStatus.COMPLETED
    THEN [task EXCEPT !.status = TaskStatus.PENDING, !.completedAt = NullDate]
    ELSE [task EXCEPT !.status = TaskStatus.COMPLETED, !.completedAt = DateOf(t)]

\* variant: completedAt is stamped on completion and never cleared
setStatus_noClear(task, status, t) ==
    IF status \in TaskStatusValues
    THEN [task EXCEPT !.status = status,
                      !.completedAt = IF status = TaskStatus.COMPLETED THEN DateOf(t) ELSE @]
    ELSE task

setStatus(task, status, t) ==
    IF status \in TaskStatusValues
    THEN [task EXCEPT !.status = status,
                      !.completedAt = IF status = TaskStatus.COMPLETED THEN DateOf(t) ELSE NullDate]
    ELSE task

assignTo(task, clientId) == [task EXCEPT !.assignedClientId = clientId]
unassign(task) == [task EXCEPT !.assignedClientId = Null]
isCompleted(task) == task.status = TaskStatus.COMPLETED
\* variant: a task due at this very instant is overdue
isOverdue_orEqual(task, t) ==
    IF ~Truthy(task.dueDate) \/ isCompleted(task) THEN FALSE
    ELSE task.dueDate[2] <= t

isOverdue(task, t) ==
    IF ~Truthy(task.dueDate) \/ isCompleted(task) THEN FALSE
    ELSE task.dueDate[2] < t

\* Task.update: each property that is not undefined is assigned, status through setStatus
update(task, updates, t) ==
    LET t1 == IF Has(updates, "title") THEN [task EXCEPT !.title = updates.title] ELSE task
        t2 == IF Has(updates, "description") THEN [t1 EXCEPT !.description = updates.description] ELSE t1
        t3 == IF Has(updates, "status") THEN setStatus(t2, updates.status, t) ELSE t2
        t4 == IF Has(updates, "assignedClientId")
              THEN [t3 EXCEPT !.assignedClientId = updates.assignedClientId] ELSE t3
        t5 == IF Has(updates, "dueDate") THEN [t4 EXCEPT !.dueDate = updates.dueDate] ELSE t4
        t6 == IF Has(updates, "priority") THEN [t5 EXCEPT !.priority = updates.priority] ELSE t5
    IN  t6

IsDate(d) == d[1] = "Date"

\* variant: a null completedAt is written as the epoch
toJSON_epochCompletedAt(task) ==
    [id |-> task.id, title |-> task.title, description |-> task.description,
     status |-> task.status, assignedClientId |-> task.assignedClientId,
     createdBy |-> task.createdBy,
     createdAt |-> IF IsDate(task.createdAt) THEN IsoOf(task.createdAt[2]) ELSE task.createdAt,
     dueDate |-> IF Truthy(task.dueDate)
                 THEN (IF IsDate(task.dueDate) THEN IsoOf(task.dueDate[2]) ELSE task.dueDate)
                 ELSE NullDate,
     priority |-> task.priority,
     completedAt |-> IF Truthy(task.completedAt)
                     THEN (IF IsDate(task.completedAt) THEN IsoOf(task.completedAt[2])
                           ELSE task.completedAt)
                     ELSE IsoOf(0)]

toJSON(task) ==
    [id |-> task.id, title |-> task.title, description |-> task.description,
     status |-> task.status, assignedClientId |-> task.assignedClientId,
     createdBy |-> task.createdBy,
     createdAt |-> IF IsDate(task.createdAt) THEN IsoOf(task.createdAt[2]) ELSE task.createdAt,
     dueDate |-> IF Truthy(task.dueDate)
                 THEN (IF IsDate(task.dueDate) THEN IsoOf(task.dueDate[2]) ELSE task.dueDate)
                 ELSE NullDate,
     priority |-> task.priority,
     completedAt |-> IF Truthy(task.completedAt)
                     THEN (IF IsDate(task.completedAt) THEN IsoOf(task.completedAt[2])
                           ELSE task.completedAt)
                     ELSE NullDate]

\* variant: completedAt is not restored
fromJSON_noCompletedAt(obj) ==
    Task(obj.id, obj.title, obj.description, obj.status, obj.assignedClientId, obj.createdBy,
         NewDate(obj.createdAt),
         IF Truthy(obj.dueDate) THEN NewDate(obj.dueDate) ELSE NullDate,
         obj.priority)

fromJSON(obj) ==
    [Task(obj.id, obj.title, obj.description, obj.status, obj.assignedClientId, obj.createdBy,
          NewDate(obj.createdAt),
          IF Truthy(obj.dueDate) THEN NewDate(obj.dueDate) ELSE NullDate,
          obj.priority)
     EXCEPT !.completedAt = IF Truthy(obj.completedAt) THEN NewDate(obj.completedAt) ELSE NullDate]

\* ---------------------------------------------------------- TaskList model
addTask(tasks, task) == Append(tasks, task)

removeTask(tasks, id) ==
    LET Keep(task) == task.id # id IN Filter(tasks, Keep)

HasTask(tasks, id) == \E i \in 1..Len(tasks) : tasks[i].id = id

\* index of the first task with this id (Array.prototype.find), 0 for undefined
getTaskById(tasks, id) ==
    IF HasTask(tasks, id)
    THEN CHOOSE i \in 1..Len(tasks) :
            /\ tasks[i].id = id
            /\ \A j \in 1..(i - 1) : tasks[j].id # id
    ELSE 0

getAllTasks(tasks) == tasks

\* variant: every task, whoever it is assigned to
getTasksByClient_all(tasks, clientId) == tasks

getTasksByClient(tasks, clientId) ==
    LET Mine(task) == task.assignedClientId = clientId IN Filter(tasks, Mine)

\* !task.assignedClientId: null and the empty string are falsy
Unassigned(task) == task.assignedClientId \in {Null, ""}

getTasksByPriority(tasks, priority) ==
    LET Is(task) == task.priority = priority IN Filter(tasks, Is)

getOverdueTasks(tasks, t) ==
    LET Over(task) == isOverdue(task, t) IN Filter(tasks, Over)

CountStatus(tasks, status) ==
    LET Is(task) == task.status = status IN Len(Filter(tasks, Is))

getTaskCounts(tasks, t) ==
    [total |-> Len(tasks),
     pending |-> CountStatus(tasks, TaskStatus.PENDING),
     inProgress |-> CountStatus(tasks, TaskStatus.IN_PROGRESS),
     completed |-> CountStatus(tasks, TaskStatus.COMPLETED),
     unassigned |-> Len(Filter(tasks, Unassigned)),
     overdue |-> Len(getOverdueTasks(tasks, t))]

\* variant: the quotient is truncated
MathRound_floor(num, den) == num \div den

\* Math.round(num / den) for num >= 0 and den > 0: halves round up
MathRound(num, den) == (2 * num + den) \div (2 * den)

getStatistics(tasks, t) ==
    LET counts == getTaskCounts(tasks, t)
    IN  [total |-> counts.total, pending |-> counts.pending, inProgress |-> counts.inProgress,
         completed |-> counts.completed, unassigned |-> counts.unassigned,
         overdue |-> counts.overdue,
         completionRate |-> IF counts.total > 0
                            THEN MathRound(counts.completed * 100, counts.total) ELSE 0,
         highPriority |-> Len(getTasksByPriority(tasks, TaskPriority.HIGH)),
         mediumPriority |-> Len(getTasksByPriority(tasks, TaskPriority.MEDIUM)),
         lowPriority |-> Len(getTasksByPriority(tasks, TaskPriority.LOW))]

\* Array.prototype.map
MapSeq(s, Op(_)) == [i \in 1..Len(s) |-> Op(s[i])]

loadFromArray(taskObjects) == MapSeq(taskObjects, fromJSON)
toArray(tasks) == MapSeq(tasks, toJSON)


\* ------------------------------------------------------------------- state
VARIABLES
    localStorage,   \* the three keys the program reads and writes
    storageOk,      \* FALSE while localStorage.setItem throws (quota, disabled storage)
    users,          \* authService.userList.users
    currentUser,    \* authService.currentUser
    vms,            \* every ViewModel/View pair constructed so far, oldest first
    current,        \* App.currentViewModel / currentView: an index of vms, 0 for null
    dom,            \* the page: displayed screens and the items of the two task lists
    now             \* the clock, in ms

vars == <<localStorage, storageOk, users, currentUser, vms, current, dom, now>>

NoItem == [present |-> FALSE, value |-> <<>>]
Item(v) == [present |-> TRUE, value |-> v]
NoUser == [id |-> Null, role |-> Null]

\* A world is what a handler reads and writes: W.vms, W.ls (localStorage), W.dom, and
\* W.form, the content of the admin form's inputs while a submit is dispatched. W.log
\* records, in order, what the handlers of one input did: each write attempted
\* ("save", with its success), each notification of the subscribers ("notify", with
\* whether localStorage then held the ViewModel's serialised tasks) and each value
\* returned by a command ("return").
NoForm == [title |-> <<>>, description |-> <<>>, client |-> "", priority |-> "medium",
           dueDate |-> NullDate, random |-> 0]
World(form) == [vms |-> vms, ls |-> localStorage, dom |-> dom, log |-> <<>>, form |-> form]

LogEntry(i, ev, op, arg, val) == [vm |-> i, ev |-> ev, op |-> op, arg |-> arg, val |-> val]
Ret(W, i, op, arg, val) == [W EXCEPT !.log = Append(@, LogEntry(i, "return", op, arg, val))]

\* ---------------------------------------------------------- StorageService
\* STORAGE_KEYS: the six keys, none holding a value
FreshStorage ==
    [tasks |-> NoItem, users |-> NoItem, currentUser |-> NoItem,
     categories |-> NoItem, activities |-> NoItem, subtasks |-> NoItem]

\* saveActivities / loadActivities
saveActivities(ls, activities) ==
    IF storageOk THEN [ls |-> [ls EXCEPT !.activities = Item(activities)], ok |-> TRUE]
    ELSE [ls |-> ls, ok |-> FALSE]
loadActivities(ls) == IF ~ls.activities.present THEN <<>> ELSE ls.activities.value

\* saveTasks: JSON.stringify and setItem inside try, false when setItem throws
saveTasks(ls, tasks) ==
    IF storageOk THEN [ls |-> [ls EXCEPT !.tasks = Item(tasks)], ok |-> TRUE]
    ELSE [ls |-> ls, ok |-> FALSE]

loadTasks(ls) == IF ~ls.tasks.present THEN <<>> ELSE ls.tasks.value

saveCurrentUser(ls, user) ==
    IF user = NoUser THEN [ls EXCEPT !.currentUser = NoItem]
    ELSE IF storageOk THEN [ls EXCEPT !.currentUser = Item(<<user>>)]
    ELSE ls

clearCurrentUser(ls) == saveCurrentUser(ls, NoUser)

\* clearTasks / clearUsers: removeItem on the key
clearTasks(ls) == [ls EXCEPT !.tasks = NoItem]
clearUsers(ls) == [ls EXCEPT !.users = NoItem]

\* saveCategories / loadCategories, saveSubtasks / loadSubtasks
saveCategories(ls, categories) ==
    IF storageOk THEN [ls |-> [ls EXCEPT !.categories = Item(categories)], ok |-> TRUE]
    ELSE [ls |-> ls, ok |-> FALSE]
loadCategories(ls) == IF ~ls.categories.present THEN <<>> ELSE ls.categories.value
saveSubtasks(ls, subtasks) ==
    IF storageOk THEN [ls |-> [ls EXCEPT !.subtasks = Item(subtasks)], ok |-> TRUE]
    ELSE [ls |-> ls, ok |-> FALSE]
loadSubtasks(ls) == IF ~ls.subtasks.present THEN <<>> ELSE ls.subtasks.value

\* clearAll: clearTasks, clearUsers and clearCurrentUser, then true
clearAll(ls) == [ls |-> clearCurrentUser(clearUsers(clearTasks(ls))), ok |-> TRUE]

\* ------------------------------------------------------------- AuthService
getUserById(userId) ==
    IF \E i \in 1..Len(users) : users[i].id = userId
    THEN (CHOOSE i \in 1..Len(users) :
             users[i].id = userId /\ \A j \in 1..(i - 1) : users[j].id # userId)
    ELSE 0

\* StorageService.saveUsers: the result is dropped by AuthService.saveUsers
saveUsers(ls, us) == IF storageOk THEN [ls EXCEPT !.users = Item(us)] ELSE ls

\* UserList.removeUser
UserListRemoveUser(us, id) ==
    LET Keep(user) == user.id # id IN Filter(us, Keep)

\* AuthService.removeUser: the users left, localStorage, and the value returned
removeUser(ls, userId) ==
    LET after == UserListRemoveUser(users, userId)
    IN  IF currentUser.id = userId THEN [users |-> users, ls |-> ls, ok |-> FALSE]
        ELSE IF Len(after) < Len(users)
        THEN [users |-> after, ls |-> saveUsers(ls, after), ok |-> TRUE]
        ELSE [users |-> after, ls |-> ls, ok |-> FALSE]

isAuthenticated == currentUser # NoUser

\* StorageService.loadUsers / loadCurrentUser: [] and null when the key holds no value
loadUsers(ls) == IF ~ls.users.present THEN <<>> ELSE ls.users.value
loadCurrentUser(ls) == IF ~ls.currentUser.present THEN NoUser ELSE ls.currentUser.value[1]

\* AuthService.getAuthState: what notify hands to every subscriber
getAuthState(user) == [isAuthenticated |-> user # NoUser, currentUser |-> user, role |-> user.role]

\* AuthService.login: the user list and the current user after the call, localStorage,
\* the states handed to the subscribers, and the success property of the result; the
\* value returned by StorageService.saveCurrentUser is dropped
login(ls, userId) ==
    LET k == getUserById(userId)
    IN  IF k = 0
        THEN [users |-> users, currentUser |-> currentUser, ls |-> ls,
              notified |-> <<>>, success |-> FALSE]
        ELSE [users |-> users, currentUser |-> users[k], ls |-> saveCurrentUser(ls, users[k]),
              notified |-> <<getAuthState(users[k])>>, success |-> TRUE]

\* AuthService.logout
logout(ls) ==
    [users |-> users, currentUser |-> NoUser, ls |-> clearCurrentUser(ls),
     notified |-> <<getAuthState(NoUser)>>, success |-> TRUE]

\* AuthService.reset
\* variant: the list is replaced while the user stays logged in
reset_noLogout(ls) ==
    [users |-> DEFAULT_USERS, currentUser |-> currentUser, ls |-> saveUsers(ls, DEFAULT_USERS),
     notified |-> <<>>, success |-> TRUE]

reset(ls) ==
    LET out == logout(ls)
    IN  [out EXCEPT !.users = DEFAULT_USERS, !.ls = saveUsers(out.ls, DEFAULT_USERS)]

\* AuthService.initializeUsers: the stored list, or the default users when none is stored
initializeUsers(ls) ==
    LET storedUsers == loadUsers(ls)
    IN  IF Len(storedUsers) = 0
        THEN [users |-> DEFAULT_USERS, ls |-> saveUsers(ls, DEFAULT_USERS)]
        ELSE [users |-> storedUsers, ls |-> ls]

\* AuthService.restoreSession over the list us: the stored user is looked up by id
restoreSession(us, ls) ==
    LET storedUser == loadCurrentUser(ls)
        SameId(user) == user.id = storedUser.id
        found == Filter(us, SameId)
    IN  IF storedUser = NoUser THEN [currentUser |-> NoUser, ls |-> ls]
        ELSE IF found # <<>> THEN [currentUser |-> found[1], ls |-> ls]
        ELSE [currentUser |-> NoUser, ls |-> clearCurrentUser(ls)]

\* ----------------------------------------------------------------- strings
toLowerCase(s) ==
    [i \in 1..Len(s) |-> CASE s[i] = "A" -> "a" [] s[i] = "B" -> "b" [] OTHER -> s[i]]

includes(s, q) == \E i \in 0..(Len(s) - Len(q)) : SubSeq(s, i + 1, i + Len(q)) = q

\* variant: the search text is compared as typed
MatchesSearch_queryAsTyped(task, search) ==
    includes(toLowerCase(task.title), search) \/ includes(toLowerCase(task.description), search)

MatchesSearch(task, search) ==
    LET query == toLowerCase(search)
    IN  includes(toLowerCase(task.title), query) \/ includes(toLowerCase(task.description), query)

\* ------------------------------------------------------------------ sorting
\* Array.prototype.sort is stable: an insertion sort that moves an element left
\* only past elements that compare strictly greater.
AdminCompare(a, b) == b.createdAt[2] - a.createdAt[2]

\* variant: overdue tasks get no precedence
ClientCompare_noOverdueFirst(a, b, t) ==
    IF Truthy(a.dueDate) /\ Truthy(b.dueDate) THEN a.dueDate[2] - b.dueDate[2]
    ELSE IF Truthy(a.dueDate) THEN -1
    ELSE IF Truthy(b.dueDate) THEN 1
    ELSE b.createdAt[2] - a.createdAt[2]

ClientCompare(a, b, t) ==
    IF isOverdue(a, t) /\ ~isOverdue(b, t) THEN -1
    ELSE IF ~isOverdue(a, t) /\ isOverdue(b, t) THEN 1
    ELSE IF Truthy(a.dueDate) /\ Truthy(b.dueDate) THEN a.dueDate[2] - b.dueDate[2]
    ELSE IF Truthy(a.dueDate) THEN -1
    ELSE IF Truthy(b.dueDate) THEN 1
    ELSE b.createdAt[2] - a.createdAt[2]

Compare(kind, a, b, t) == IF kind = "admin" THEN AdminCompare(a, b) ELSE ClientCompare(a, b, t)

RECURSIVE Insert(_, _, _, _)
Insert(sorted, x, kind, t) ==
    IF sorted = <<>> THEN <<x>>
    ELSE IF Compare(kind, sorted[Len(sorted)], x, t) > 0
         THEN Append(Insert(SubSeq(sorted, 1, Len(sorted) - 1), x, kind, t), sorted[Len(sorted)])
         ELSE Append(sorted, x)

RECURSIVE Sort(_, _, _)
Sort(s, kind, t) ==
    IF s = <<>> THEN <<>>
    ELSE Insert(Sort(SubSeq(s, 1, Len(s) - 1), kind, t), s[Len(s)], kind, t)

\* ---------------------------------------------------------- AdminViewModel
\* `let searchTimeout;` of bindEvents: undefined until the first keystroke
NoTimer == -1

NewViewModel(kind, ls) ==
    [kind |-> kind, tasks |-> loadFromArray(loadTasks(ls)),
     currentFilter |-> "all", currentSearch |-> <<>>, currentClientFilter |-> "all",
     editingTaskId |-> NoTask, searchTimeout |-> NoTimer]

Reverse(s) == [k \in 1..Len(s) |-> s[Len(s) + 1 - k]]

\* variant: newest first, tasks of equal createdAt in the reverse of the stored order
AdminGetViewData_unstable(vm, t) ==
    LET ByClient(task) ==
            IF vm.currentClientFilter = "all" THEN TRUE
            ELSE IF vm.currentClientFilter = "unassigned" THEN Unassigned(task)
            ELSE task.assignedClientId = vm.currentClientFilter
        ByStatus(task) == vm.currentFilter = "all" \/ task.status = vm.currentFilter
        BySearch(task) == vm.currentSearch = <<>> \/ MatchesSearch(task, vm.currentSearch)
    IN  Sort(Reverse(Filter(Filter(Filter(getAllTasks(vm.tasks), ByClient), ByStatus), BySearch)),
             "admin", t)

\* the tasks of AdminViewModel.getViewData
AdminGetViewData(vm, t) ==
    LET ByClient(task) ==
            IF vm.currentClientFilter = "all" THEN TRUE
            ELSE IF vm.currentClientFilter = "unassigned" THEN Unassigned(task)
            ELSE task.assignedClientId = vm.currentClientFilter
        ByStatus(task) == vm.currentFilter = "all" \/ task.status = vm.currentFilter
        BySearch(task) == vm.currentSearch = <<>> \/ MatchesSearch(task, vm.currentSearch)
    IN  Sort(Filter(Filter(Filter(getAllTasks(vm.tasks), ByClient), ByStatus), BySearch),
             "admin", t)

\* the tasks of ClientViewModel.getViewData
ClientGetViewData(vm, user, t) ==
    LET ByStatus(task) == vm.currentFilter = "all" \/ task.status = vm.currentFilter
        BySearch(task) == vm.currentSearch = <<>> \/ MatchesSearch(task, vm.currentSearch)
    IN  IF user = NoUser THEN <<>>
        ELSE Sort(Filter(Filter(getTasksByClient(vm.tasks, user.id), ByStatus), BySearch),
                  "client", t)

\* variant: the statistics of the filtered list
AdminStatistics_filtered(vm, t) == getStatistics(AdminGetViewData(vm, t), t)

\* the statistics of AdminViewModel.getViewData
AdminStatistics(vm, t) == getStatistics(vm.tasks, t)

\* the counts of ClientViewModel.getViewData
ClientCounts(vm, user, t) ==
    IF user = NoUser THEN [total |-> 0, pending |-> 0, completed |-> 0]
    ELSE LET allAssignedTasks == getTasksByClient(vm.tasks, user.id)
             Overdue(task) == isOverdue(task, t)
         IN  [total |-> Len(allAssignedTasks),
              pending |-> CountStatus(allAssignedTasks, TaskStatus.PENDING),
              inProgress |-> CountStatus(allAssignedTasks, TaskStatus.IN_PROGRESS),
              completed |-> CountStatus(allAssignedTasks, TaskStatus.COMPLETED),
              overdue |-> Len(Filter(allAssignedTasks, Overdue))]

\* variant: getAllTasks hands out the collection's own array
AdminViewArray_alias(vm) == [own |-> TRUE, items |-> vm.tasks]

\* the array getViewData starts from: getAllTasks returns a copy
AdminViewArray(vm) == [own |-> FALSE, items |-> getAllTasks(vm.tasks)]

\* getTasksByClient returns the new array of Array.prototype.filter
ClientViewArray(vm, user) == [own |-> FALSE, items |-> getTasksByClient(vm.tasks, user.id)]

\* AdminViewModel.getViewData as a call: what it returns and what it leaves behind.
\* Each filter that applies replaces the array by a new one; sort reorders, in place,
\* the array it is given.
AdminViewDataCall(W, i) ==
    LET vm == W.vms[i]
        start == AdminViewArray(vm)
        replaced == vm.currentClientFilter # "all" \/ vm.currentFilter # "all"
                    \/ vm.currentSearch # <<>>
        list == AdminGetViewData(vm, now)
    IN  [W |-> IF start.own /\ ~replaced THEN [W EXCEPT !.vms[i].tasks = list] ELSE W,
         tasks |-> list, counts |-> AdminStatistics(vm, now)]

ClientViewDataCall(W, i) ==
    LET vm == W.vms[i]
        start == IF currentUser = NoUser THEN [own |-> FALSE, items |-> <<>>]
                 ELSE ClientViewArray(vm, currentUser)
        list == ClientGetViewData(vm, currentUser, now)
    IN  [W |-> IF start.own THEN [W EXCEPT !.vms[i].tasks = list] ELSE W,
         tasks |-> list, counts |-> ClientCounts(vm, currentUser, now)]

ViewDataCall(W, i) ==
    IF W.vms[i].kind = "admin" THEN AdminViewDataCall(W, i) ELSE ClientViewDataCall(W, i)

\* ClientViewModel.getTask: the task, or NoTask for null
ClientGetTask(vm, user, taskId) ==
    LET k == getTaskById(vm.tasks, taskId)
    IN  IF user = NoUser THEN NoTask
        ELSE IF k # 0 /\ vm.tasks[k].assignedClientId = user.id THEN <<vm.tasks[k]>>
        ELSE NoTask

\* AdminView.renderTaskList / ClientView.renderTaskList: the items of the list
RenderAdmin(tasks) == {[id |-> tasks[k].id, completed |-> tasks[k].status = "completed"] : k \in 1..Len(tasks)}
RenderClient(tasks) == {tasks[k].id : k \in 1..Len(tasks)}

Render(W, i) ==
    IF W.vms[i].kind = "admin"
    THEN [W EXCEPT !.dom.adminList = RenderAdmin(AdminGetViewData(W.vms[i], now))]
    ELSE [W EXCEPT !.dom.clientList = RenderClient(ClientGetViewData(W.vms[i], currentUser, now))]

\* saveToStorage: the result of StorageService.saveTasks is dropped
saveToStorage(W, i) ==
    LET r == saveTasks(W.ls, toArray(W.vms[i].tasks))
    IN  [W EXCEPT !.ls = r.ls,
                  !.log = Append(@, LogEntry(i, "save", "saveToStorage", NoTask, r.ok))]

\* notify: the one subscriber is the View's render
notify(W, i) ==
    LET R == Render(W, i)
    IN  [R EXCEPT !.log = Append(@, LogEntry(i, "notify", "notify", NoTask,
                                             W.ls.tasks = Item(toArray(W.vms[i].tasks))))]

generateId(t, random) == <<"task", t, random>>

OrNull(obj, field) == IF Has(obj, field) /\ obj[field] # "" THEN obj[field] ELSE Null

\* variant: the title is not trimmed before it is tested
createTask_noTrim(W, i, taskData, random) ==
    IF ~Has(taskData, "title") \/ taskData.title = <<>>
    THEN Ret(W, i, "createTask", NoTask, FALSE)
    ELSE LET task == Task(generateId(now, random),
                          trim(taskData.title),
                          IF Has(taskData, "description") THEN trim(taskData.description) ELSE <<>>,
                          TaskStatus.PENDING,
                          OrNull(taskData, "assignedClientId"),
                          currentUser.id,
                          DateOf(now),
                          IF Has(taskData, "dueDate") /\ Truthy(taskData.dueDate)
                          THEN NewDate(taskData.dueDate) ELSE NullDate,
                          IF Has(taskData, "priority") /\ taskData.priority # ""
                          THEN taskData.priority ELSE TaskPriority.MEDIUM)
             W1 == [W EXCEPT !.vms[i].tasks = addTask(@, task)]
         IN  Ret(notify(saveToStorage(W1, i), i), i, "createTask", task.id, TRUE)

createTask(W, i, taskData, random) ==
    IF ~Has(taskData, "title") \/ taskData.title = <<>> \/ trim(taskData.title) = <<>>
    THEN Ret(W, i, "createTask", NoTask, FALSE)
    ELSE LET task == Task(generateId(now, random),
                          trim(taskData.title),
                          IF Has(taskData, "description") THEN trim(taskData.description) ELSE <<>>,
                          TaskStatus.PENDING,
                          OrNull(taskData, "assignedClientId"),
                          currentUser.id,
                          DateOf(now),
                          IF Has(taskData, "dueDate") /\ Truthy(taskData.dueDate)
                          THEN NewDate(taskData.dueDate) ELSE NullDate,
                          IF Has(taskData, "priority") /\ taskData.priority # ""
                          THEN taskData.priority ELSE TaskPriority.MEDIUM)
             W1 == [W EXCEPT !.vms[i].tasks = addTask(@, task)]
         IN  Ret(notify(saveToStorage(W1, i), i), i, "createTask", task.id, TRUE)

updateTask(W, i, taskId, updates) ==
    LET k == getTaskById(W.vms[i].tasks, taskId)
        u == IF Has(updates, "dueDate") /\ Truthy(updates.dueDate)
             THEN [updates EXCEPT !.dueDate = NewDate(@)] ELSE updates
    IN  IF k = 0 THEN Ret(W, i, "updateTask", taskId, FALSE)
        ELSE LET W1 == [W EXCEPT !.vms[i].tasks[k] = update(@, u, now)]
             IN  Ret(notify(saveToStorage(W1, i), i), i, "updateTask", taskId, TRUE)

\* variant: the subscribers are notified before the write
deleteTask_notifyFirst(W, i, taskId) ==
    LET after == removeTask(W.vms[i].tasks, taskId)
        removed == Len(after) < Len(W.vms[i].tasks)
        W1 == [W EXCEPT !.vms[i].tasks = after]
    IN  IF removed THEN Ret(saveToStorage(notify(W1, i), i), i, "deleteTask", taskId, TRUE)
        ELSE Ret(W1, i, "deleteTask", taskId, FALSE)

deleteTask(W, i, taskId) ==
    LET after == removeTask(W.vms[i].tasks, taskId)
        removed == Len(after) < Len(W.vms[i].tasks)
        W1 == [W EXCEPT !.vms[i].tasks = after]
    IN  IF removed THEN Ret(notify(saveToStorage(W1, i), i), i, "deleteTask", taskId, TRUE)
        ELSE Ret(W1, i, "deleteTask", taskId, FALSE)

assignTask(W, i, taskId, clientId) ==
    LET k == getTaskById(W.vms[i].tasks, taskId)
    IN  IF k = 0 THEN Ret(W, i, "assignTask", taskId, FALSE)
        ELSE IF clientId # Null /\ clientId # ""
        THEN IF getUserById(clientId) = 0 THEN Ret(W, i, "assignTask", taskId, FALSE)
             ELSE LET W1 == [W EXCEPT !.vms[i].tasks[k] = assignTo(@, clientId)]
                  IN  Ret(notify(saveToStorage(W1, i), i), i, "assignTask", taskId, TRUE)
        ELSE LET W1 == [W EXCEPT !.vms[i].tasks[k] = unassign(@)]
             IN  Ret(notify(saveToStorage(W1, i), i), i, "assignTask", taskId, TRUE)

AdminSetTaskStatus(W, i, taskId, status) ==
    LET k == getTaskById(W.vms[i].tasks, taskId)
    IN  IF k = 0 THEN Ret(W, i, "setTaskStatus", taskId, FALSE)
        ELSE LET W1 == [W EXCEPT !.vms[i].tasks[k] = setStatus(@, status, now)]
             IN  Ret(notify(saveToStorage(W1, i), i), i, "setTaskStatus", taskId, TRUE)

\* --------------------------------------------------------- ClientViewModel
\* variant: no check of the task's assignee
toggleTaskStatus_noOwnerCheck(W, i, taskId) ==
    LET k == getTaskById(W.vms[i].tasks, taskId)
    IN  IF currentUser = NoUser THEN Ret(W, i, "toggleTaskStatus", taskId, FALSE)
        ELSE IF k = 0 THEN Ret(W, i, "toggleTaskStatus", taskId, FALSE)
        ELSE LET W1 == [W EXCEPT !.vms[i].tasks[k] = toggleStatus(@, now)]
             IN  Ret(notify(saveToStorage(W1, i), i), i, "toggleTaskStatus", taskId, TRUE)

toggleTaskStatus(W, i, taskId) ==
    LET k == getTaskById(W.vms[i].tasks, taskId)
    IN  IF currentUser = NoUser THEN Ret(W, i, "toggleTaskStatus", taskId, FALSE)
        ELSE IF k = 0 THEN Ret(W, i, "toggleTaskStatus", taskId, FALSE)
        ELSE IF W.vms[i].tasks[k].assignedClientId # currentUser.id
        THEN Ret(W, i, "toggleTaskStatus", taskId, FALSE)
        ELSE LET W1 == [W EXCEPT !.vms[i].tasks[k] = toggleStatus(@, now)]
             IN  Ret(notify(saveToStorage(W1, i), i), i, "toggleTaskStatus", taskId, TRUE)

ClientSetTaskStatus(W, i, taskId, status) ==
    LET k == getTaskById(W.vms[i].tasks, taskId)
    IN  IF currentUser = NoUser THEN Ret(W, i, "setTaskStatus", taskId, FALSE)
        ELSE IF k = 0 THEN Ret(W, i, "setTaskStatus", taskId, FALSE)
        ELSE IF W.vms[i].tasks[k].assignedClientId # currentUser.id
        THEN Ret(W, i, "setTaskStatus", taskId, FALSE)
        ELSE LET W1 == [W EXCEPT !.vms[i].tasks[k] = setStatus(@, status, now)]
             IN  Ret(notify(saveToStorage(W1, i), i), i, "setTaskStatus", taskId, TRUE)

\* ------------------------------------------------- filters (both ViewModels)
\* variant: choosing a status shows every client again
setStatusFilter_resetsClient(W, i, filter) ==
    notify([W EXCEPT !.vms[i].currentFilter = filter, !.vms[i].currentClientFilter = "all"], i)

setStatusFilter(W, i, filter) == notify([W EXCEPT !.vms[i].currentFilter = filter], i)
setClientFilter(W, i, clientId) == notify([W EXCEPT !.vms[i].currentClientFilter = clientId], i)
setSearch(W, i, query) == notify([W EXCEPT !.vms[i].currentSearch = query], i)
clearFilters(W, i) ==
    notify([W EXCEPT !.vms[i].currentFilter = "all",
                     !.vms[i].currentClientFilter = IF W.vms[i].kind = "admin" THEN "all" ELSE @,
                     !.vms[i].currentSearch = <<>>], i)


\* ------------------------------------------------- search input (both Views)
\* a timer of the page: the View that set it and the time it is due; its id is its due time
Timer(i, due) == [view |-> i, due |-> due]

clearTimeout(timers, i, id) == timers \ { Timer(i, id) }

\* variant: the pending timer is left running
searchInputListener_noClear(W, i) ==
    [W EXCEPT !.dom.timers = @ \cup { Timer(i, now + SEARCH_DELAY) },
              !.vms[i].searchTimeout = now + SEARCH_DELAY]

\* the 'input' listener: clearTimeout(searchTimeout); searchTimeout = setTimeout(..., 300)
searchInputListener(W, i) ==
    [W EXCEPT !.dom.timers = clearTimeout(@, i, W.vms[i].searchTimeout)
                                \cup { Timer(i, now + SEARCH_DELAY) },
              !.vms[i].searchTimeout = now + SEARCH_DELAY]

\* the timer's callback: setSearch(e.target.value), the input's text when it runs
searchTimerCallback(W, tm) ==
    setSearch([W EXCEPT !.dom.timers = @ \ { tm }], tm.view,
              W.dom.searchInput[W.vms[tm.view].kind])

\* the click listener of the clear-filters button
clearFiltersClick(W, i) ==
    [clearFilters(W, i) EXCEPT !.dom.searchInput[W.vms[i].kind] = <<>>]

\* ---------------------------------------------------------------- AdminView
EmptyForm == [title |-> <<>>, description |-> <<>>, client |-> "", priority |-> "medium",
              dueDate |-> NullDate, random |-> 0]

clearForm(W) == [W EXCEPT !.form = EmptyForm]

cancelEdit(W, i) == clearForm([W EXCEPT !.vms[i].editingTaskId = NoTask])

handleFormSubmit(W, i) ==
    LET taskData == [title |-> W.form.title, description |-> W.form.description,
                     assignedClientId |-> IF W.form.client = "" THEN Null ELSE W.form.client,
                     priority |-> W.form.priority, dueDate |-> W.form.dueDate]
    IN  IF trim(taskData.title) = <<>> THEN W
        ELSE IF W.vms[i].editingTaskId # NoTask
        THEN clearForm(cancelEdit(updateTask(W, i, W.vms[i].editingTaskId, taskData), i))
        ELSE clearForm(createTask(W, i, taskData, W.form.random))

handleEdit(W, i, taskId) ==
    IF getTaskById(W.vms[i].tasks, taskId) # 0
    THEN [W EXCEPT !.vms[i].editingTaskId = taskId]
    ELSE W

handleDelete(W, i, taskId, confirmed) ==
    IF i \in confirmed THEN deleteTask(W, i, taskId) ELSE W

\* One listener of AdminView.bindEvents, run for the View of vms[i]
AdminHandle(W, i, ev) ==
    CASE ev.type = "submit" -> handleFormSubmit(W, i)
      [] ev.type = "cancelEdit" -> cancelEdit(W, i)
      [] ev.type = "statusFilter" -> setStatusFilter(W, i, ev.filter)
      [] ev.type = "clientFilter" -> setClientFilter(W, i, ev.clientId)
      [] ev.type = "clearFilters" -> clearFiltersClick(W, i)
      [] ev.type = "input" -> searchInputListener(W, i)
      [] ev.type = "delete" -> handleDelete(W, i, ev.taskId, ev.confirmed)
      [] ev.type = "edit" -> handleEdit(W, i, ev.taskId)
      [] ev.type = "status" -> AdminSetTaskStatus(W, i, ev.taskId, ev.status)
      [] ev.type = "assign" -> assignTask(W, i, ev.taskId, ev.clientId)

\* --------------------------------------------------------------- ClientView
\* One listener of ClientView.bindEvents, run for the View of vms[i]
ClientHandle(W, i, ev) ==
    CASE ev.type = "statusFilter" -> setStatusFilter(W, i, ev.filter)
      [] ev.type = "clearFilters" -> clearFiltersClick(W, i)
      [] ev.type = "input" -> searchInputListener(W, i)
      [] ev.type = "toggle" -> toggleTaskStatus(W, i, ev.taskId)

\* The Views whose listeners an element of the page carries: every View of that kind
\* constructed so far (addEventListener in bindEvents, never removed).
Listening(W, i, kind) == W.vms[i].kind = kind

\* An event on an element of a dashboard: its listeners run in the order they were added
RECURSIVE Dispatch(_, _, _, _)
Dispatch(W, i, kind, ev) ==
    IF i > Len(W.vms) THEN W
    ELSE Dispatch(IF Listening(W, i, kind)
                  THEN (IF kind = "admin" THEN AdminHandle(W, i, ev) ELSE ClientHandle(W, i, ev))
                  ELSE W,
                  i + 1, kind, ev)

Event(type) == [type |-> type, taskId |-> NoTask, status |-> "", clientId |-> "", filter |-> "",
                confirmed |-> {}]

\* ---------------------------------------------------------------------- App
\* the page as index.html gives it: the login screen, empty lists, empty search inputs,
\* and no timer set
LoadedPage ==
    [loginScreen |-> TRUE, appScreen |-> FALSE, adminDashboard |-> FALSE,
     clientDashboard |-> FALSE, adminList |-> {}, clientList |-> {},
     searchInput |-> [admin |-> <<>>, client |-> <<>>], timers |-> {}]

showLoginScreen(d) == [d EXCEPT !.appScreen = FALSE, !.loginScreen = TRUE]

\* showAppScreen with showAdminDashboard / showClientDashboard: what becomes displayed
\* variant: the dashboard of the other role stays displayed
showAppScreen_noHide(d, user) ==
    IF user.role = UserRole.ADMIN
    THEN [d EXCEPT !.loginScreen = FALSE, !.appScreen = TRUE, !.adminDashboard = TRUE]
    ELSE [d EXCEPT !.loginScreen = FALSE, !.appScreen = TRUE, !.clientDashboard = TRUE]

showAppScreen(d, user) ==
    IF user.role = UserRole.ADMIN
    THEN [d EXCEPT !.loginScreen = FALSE, !.appScreen = TRUE,
                   !.clientDashboard = FALSE, !.adminDashboard = TRUE]
    ELSE [d EXCEPT !.loginScreen = FALSE, !.appScreen = TRUE,
                   !.adminDashboard = FALSE, !.clientDashboard = TRUE]

\* an element takes user input only while it and its ancestors are displayed
AdminVisible == dom.appScreen /\ dom.adminDashboard
ClientVisible == dom.appScreen /\ dom.clientDashboard

Commit(W) ==
    /\ vms' = W.vms
    /\ localStorage' = W.ls
    /\ dom' = W.dom

\* ------------------------------------------------------------------ inputs
LoginIds == { "admin_001", "client_001", "client_002" }
GhostTask == <<"task", 0, MaxRandom + 1>>
StatusFilters == { "all", "pending", "in_progress", "completed" }
Searches == { <<>>, <<"a">>, <<"A">>, <<"b">> }

\* what the user typed into the admin form when submitting it
Forms == { [EmptyForm EXCEPT !.title = ttl, !.client = c] :
           ttl \in { <<" ">>, <<" ", "B">> }, c \in { "", "client_001" } }

\* arguments of direct calls
InvalidTaskData == { <<>>, [title |-> <<>>], [title |-> <<" ">>], [title |-> <<" ", " ">>] }
ValidTaskData == { [title |-> <<" ", "a">>] }
StatusInputs == { "pending", "in_progress", "completed", "bogus" }

\* ----------------------------------------------------------------- actions
\* App.checkAuthState and App.onAuthStateChange: showAppScreen constructs the ViewModel and
\* the View of the dashboard and renders it, showLoginScreen changes the screens only
onAuthStateChange(page, authState, ls, t) ==
    LET user == authState.currentUser
        kind == IF user.role = UserRole.ADMIN THEN "admin" ELSE "client"
        vm == NewViewModel(kind, ls)
        shown == showAppScreen(page.dom, user)
    IN  IF authState.isAuthenticated
        THEN [vms |-> Append(page.vms, vm),
              current |-> Len(page.vms) + 1,
              dom |-> IF kind = "admin"
                      THEN [shown EXCEPT !.adminList = RenderAdmin(AdminGetViewData(vm, t))]
                      ELSE [shown EXCEPT !.clientList = RenderClient(ClientGetViewData(vm, user, t))]]
        ELSE [page EXCEPT !.dom = showLoginScreen(page.dom)]

Init ==
    /\ localStorage = [FreshStorage EXCEPT !.users = Item(DEFAULT_USERS)]
    /\ storageOk = TRUE
    /\ users = DEFAULT_USERS
    /\ currentUser = NoUser
    /\ vms = <<>>
    /\ current = 0
    /\ dom = LoadedPage
    /\ now = 0

\* a click on a user card: App.handleLogin, AuthService.login, App.onAuthStateChange
LoginUpTo(userId, sessions) ==
    /\ dom.loginScreen
    /\ Len(vms) < sessions
    /\ getUserById(userId) # 0
    /\ LET user == users[getUserById(userId)]
           kind == IF user.role = UserRole.ADMIN THEN "admin" ELSE "client"
           vm == NewViewModel(kind, localStorage)
           shown == showAppScreen(dom, user)
       IN  /\ currentUser' = user
           /\ current' = Len(vms) + 1
           /\ vms' = Append(vms, vm)
           /\ localStorage' = saveCurrentUser(localStorage, user)
           /\ dom' = (IF kind = "admin"
                      THEN [shown EXCEPT !.adminList = RenderAdmin(AdminGetViewData(vm, now))]
                      ELSE [shown EXCEPT !.clientList = RenderClient(ClientGetViewData(vm, user, now))])
    /\ UNCHANGED <<storageOk, users, now>>

Login(userId) == LoginUpTo(userId, MaxSessions)

\* a click on the logout button: App.handleLogout, AuthService.logout
Logout ==
    /\ dom.appScreen
    /\ current' = 0
    /\ currentUser' = NoUser
    /\ localStorage' = clearCurrentUser(localStorage)
    /\ dom' = showLoginScreen(dom)
    /\ UNCHANGED <<storageOk, users, vms, now>>

RoomForTask == \A i \in 1..Len(vms) : Len(vms[i].tasks) < MaxTasks

\* ---- events on the page
AdminSubmit ==
    /\ AdminVisible
    /\ RoomForTask
    /\ \E form \in Forms, random \in 0..MaxRandom :
          Commit(Dispatch(World([form EXCEPT !.random = random]), 1, "admin", Event("submit")))
    /\ UNCHANGED <<storageOk, users, currentUser, current, now>>

AdminClick(ev) ==
    /\ AdminVisible
    /\ Commit(Dispatch(World(NoForm), 1, "admin", ev))
    /\ UNCHANGED <<storageOk, users, currentUser, current, now>>

ClientClick(ev) ==
    /\ ClientVisible
    /\ Commit(Dispatch(World(NoForm), 1, "client", ev))
    /\ UNCHANGED <<storageOk, users, currentUser, current, now>>

AdminCancelEdit == AdminClick(Event("cancelEdit"))

AdminDeleteClick ==
    \E item \in dom.adminList, conf \in SUBSET (1..Len(vms)) :
        AdminClick([Event("delete") EXCEPT !.taskId = item.id, !.confirmed = conf])

AdminEditClick ==
    \E item \in dom.adminList : AdminClick([Event("edit") EXCEPT !.taskId = item.id])

\* the status button of an item carries the status the item was rendered for
AdminStatusClick ==
    \E item \in dom.adminList :
        AdminClick([Event("status") EXCEPT !.taskId = item.id,
                        !.status = IF item.completed THEN "pending" ELSE "completed"])

AdminAssignChange ==
    \E item \in dom.adminList, c \in { "", "client_001" } :
        AdminClick([Event("assign") EXCEPT !.taskId = item.id,
                        !.clientId = IF c = "" THEN Null ELSE c])

ClientToggleClick ==
    \E id \in dom.clientList : ClientClick([Event("toggle") EXCEPT !.taskId = id])

\* ---- direct calls of the methods of App.currentViewModel (window.__app)
AdminCurrent == current # 0 /\ vms[current].kind = "admin"
ClientCurrent == current # 0 /\ vms[current].kind = "client"
KnownTaskIds == {vms[current].tasks[k].id : k \in 1..Len(vms[current].tasks)}

Call(W) ==
    /\ Commit(W)
    /\ UNCHANGED <<storageOk, users, currentUser, current, now>>

ApiCreateTask(inputs) ==
    /\ AdminCurrent
    /\ Len(vms[current].tasks) < MaxTasks
    /\ \E taskData \in inputs, random \in 0..MaxRandom :
          Call(createTask(World(NoForm), current, taskData, random))

ApiUpdateTask(inputs) ==
    /\ AdminCurrent
    /\ \E id \in KnownTaskIds \cup {GhostTask}, updates \in inputs :
          Call(updateTask(World(NoForm), current, id, updates))

ApiDeleteTask ==
    /\ AdminCurrent
    /\ \E id \in KnownTaskIds \cup {GhostTask} : Call(deleteTask(World(NoForm), current, id))

ApiAssignTask(inputs) ==
    /\ AdminCurrent
    /\ \E id \in KnownTaskIds, c \in inputs : Call(assignTask(World(NoForm), current, id, c))

ApiAdminSetTaskStatus(inputs) ==
    /\ AdminCurrent
    /\ \E id \in KnownTaskIds, st \in inputs :
          Call(AdminSetTaskStatus(World(NoForm), current, id, st))

ApiToggleTaskStatus ==
    /\ ClientCurrent
    /\ \E id \in KnownTaskIds : Call(toggleTaskStatus(World(NoForm), current, id))

ApiClientSetTaskStatus(inputs) ==
    /\ ClientCurrent
    /\ \E id \in KnownTaskIds, st \in inputs :
          Call(ClientSetTaskStatus(World(NoForm), current, id, st))

ApiClientSetStatusFilter(inputs) ==
    /\ ClientCurrent
    /\ \E f \in inputs : Call(setStatusFilter(World(NoForm), current, f))

ApiClientSetSearch(inputs) ==
    /\ ClientCurrent
    /\ \E q \in inputs : Call(setSearch(World(NoForm), current, q))

ApiClientClearFilters ==
    /\ ClientCurrent
    /\ Call(clearFilters(World(NoForm), current))

\* a call of window.__authService.removeUser
ApiRemoveUser(inputs) ==
    /\ \E userId \in inputs :
          LET r == removeUser(localStorage, userId)
          IN  users' = r.users /\ localStorage' = r.ls
    /\ UNCHANGED <<storageOk, currentUser, vms, current, dom, now>>

\* ---- the environment
\* the clock advances
Tick ==
    /\ now < MaxTime
    /\ now' = now + 1
    /\ UNCHANGED <<localStorage, storageOk, users, currentUser, vms, current, dom>>

\* localStorage.setItem starts or stops throwing
StorageChange ==
    /\ storageOk' = ~storageOk
    /\ UNCHANGED <<localStorage, users, currentUser, vms, current, dom, now>>

\* ---------------------------------------------------------- specifications
\* the program driven through the page
Next ==
    \/ \E userId \in LoginIds : Login(userId)
    \/ Logout
    \/ AdminSubmit
    \/ AdminCancelEdit
    \/ AdminDeleteClick
    \/ AdminEditClick
    \/ AdminStatusClick
    \/ AdminAssignChange
    \/ ClientToggleClick
    \/ Tick

Spec == Init /\ [][Next]_vars

\* the methods of the current ViewModel called directly
NextVM ==
    \/ \E userId \in LoginIds : Login(userId)
    \/ Logout
    \/ ApiCreateTask(InvalidTaskData \cup ValidTaskData)
    \/ ApiDeleteTask
    \/ ApiAssignTask({ "client_001", "ghost" })
    \/ ApiAdminSetTaskStatus({ "in_progress", "bogus" })
    \/ ApiUpdateTask({ [status |-> "completed"], [title |-> <<>>] })
    \/ ApiToggleTaskStatus
    \/ ApiClientSetTaskStatus({ "in_progress", "bogus" })
    \/ ApiClientSetStatusFilter({ "completed" })
    \/ ApiClientSetSearch({ <<"A">> })
    \/ ApiClientClearFilters
    \/ Tick

SpecVM == Init /\ [][NextVM]_vars

\* the same calls while localStorage.setItem fails at times
NextFail ==
    \/ \E userId \in LoginIds : Login(userId)
    \/ Logout
    \/ ApiCreateTask(ValidTaskData)
    \/ ApiDeleteTask
    \/ ApiAssignTask({ "client_001" })
    \/ ApiAdminSetTaskStatus({ "completed" })
    \/ ApiToggleTaskStatus
    \/ StorageChange

SpecFail == Init /\ [][NextFail]_vars

\* calls whose arguments name a user or a priority, and the removal of users
NextRef ==
    \/ Login("admin_001")
    \/ Logout
    \/ ApiCreateTask({ [title |-> <<"a">>, assignedClientId |-> "client_001"],
                       [title |-> <<"a">>, assignedClientId |-> "ghost"],
                       [title |-> <<"a">>, priority |-> "urgent"],
                       [title |-> <<"a">>, priority |-> "high"] })
    \/ ApiUpdateTask({ [priority |-> "urgent"], [priority |-> "low"],
                       [assignedClientId |-> "ghost"] })
    \/ ApiAssignTask({ "client_001", "admin_001", "ghost", Null })
    \/ ApiRemoveUser({ "client_001", "admin_001", "ghost" })

SpecRef == Init /\ [][NextRef]_vars

\* ---- the page loaded over a stored collection, with a session to restore
\* a task as createTask and the status commands leave it: completedAt set exactly when
\* completed
DataTask(k, status, dueDate, assignedClientId, text, created) ==
    [Task(generateId(created, k), text.title, text.description, status, assignedClientId,
          "admin_001", DateOf(created), dueDate, TaskPriority.MEDIUM)
     EXCEPT !.completedAt = IF status = TaskStatus.COMPLETED THEN DateOf(MaxTime) ELSE NullDate]

DataDueDates == { NullDate, DateOf(0), DateOf(MaxTime + 1) }
DataTexts == { [title |-> <<"a">>, description |-> <<>>],
               [title |-> <<"B">>, description |-> <<"a", "b">>] }

DataTasks(k) ==
    { DataTask(k, st, due, c, text, created) :
        st \in TaskStatusValues, due \in DataDueDates, c \in { Null, "client_001" },
        text \in DataTexts, created \in 0..MaxTime }

\* tasks that differ in status and creation time only
StatusTasks(k) ==
    { DataTask(k, st, NullDate, "client_001", [title |-> <<"a">>, description |-> <<>>], created) :
        st \in TaskStatusValues, created \in 0..MaxTime }

\* up to MaxTasks tasks of every shape, and MaxTasks + 1 tasks of the plain shape; the
\* k-th task of a collection is drawn from the k-th family
DataCollections ==
    UNION { { T \in [1..n -> UNION { DataTasks(k) : k \in 1..n }] :
                \A k \in 1..n : T[k] \in DataTasks(k) } : n \in 0..MaxTasks }
    \cup { T \in [1..(MaxTasks + 1) -> UNION { StatusTasks(k) : k \in 1..(MaxTasks + 1) }] :
               \A k \in 1..(MaxTasks + 1) : T[k] \in StatusTasks(k) }

InitData ==
    \E user \in { DEFAULT_USERS[1], DEFAULT_USERS[2] }, T \in DataCollections :
        LET kind == IF user.role = UserRole.ADMIN THEN "admin" ELSE "client"
            ls == [FreshStorage EXCEPT !.tasks = Item(toArray(T)),
                                       !.users = Item(DEFAULT_USERS),
                                       !.currentUser = Item(<<user>>)]
            vm == NewViewModel(kind, ls)
            shown == showAppScreen(LoadedPage, user)
        IN  /\ localStorage = ls
            /\ storageOk = TRUE
            /\ users = DEFAULT_USERS
            /\ currentUser = user
            /\ vms = <<vm>>
            /\ current = 1
            /\ dom = (IF kind = "admin"
                      THEN [shown EXCEPT !.adminList = RenderAdmin(AdminGetViewData(vm, MaxTime))]
                      ELSE [shown EXCEPT !.clientList = RenderClient(ClientGetViewData(vm, user, MaxTime))])
            /\ now = MaxTime

ApiSetStatusFilter(inputs) ==
    /\ current # 0
    /\ \E f \in inputs : Call(setStatusFilter(World(NoForm), current, f))

ApiClearFilters ==
    /\ current # 0
    /\ Call(clearFilters(World(NoForm), current))

NextData ==
    \/ ApiSetStatusFilter({ "completed" })
    \/ ApiClearFilters
    \/ ApiAdminSetTaskStatus({ "completed", "in_progress" })
    \/ ApiClientSetTaskStatus({ "completed", "pending" })
    \/ ApiToggleTaskStatus

SpecData == InitData /\ [][NextData]_vars

\* ---- the search inputs and their timers
SearchKeys == { <<"a">>, <<"a", "b">> }
VisibleKind == IF AdminVisible THEN "admin" ELSE "client"

\* a keystroke in the search input of the dashboard displayed
SearchKeystroke ==
    /\ dom.appScreen
    /\ now + SEARCH_DELAY <= MaxClock
    /\ \E text \in SearchKeys :
          /\ text # dom.searchInput[VisibleKind]
          /\ Commit(Dispatch([World(NoForm) EXCEPT !.dom.searchInput[VisibleKind] = text],
                             1, VisibleKind, Event("input")))
    /\ UNCHANGED <<storageOk, users, currentUser, current, now>>

\* the timer of the View of vms[i] has run out and its callback runs
SearchTimerFires(i) ==
    /\ \E tm \in dom.timers :
          /\ tm.view = i
          /\ tm.due <= now
          /\ Commit(searchTimerCallback(World(NoForm), tm))
    /\ UNCHANGED <<storageOk, users, currentUser, current, now>>

ClearFiltersClick ==
    /\ dom.appScreen
    /\ Commit(Dispatch(World(NoForm), 1, VisibleKind, Event("clearFilters")))
    /\ UNCHANGED <<storageOk, users, currentUser, current, now>>

TickSearch ==
    /\ now < MaxClock
    /\ now' = now + ClockStep
    /\ UNCHANGED <<localStorage, storageOk, users, currentUser, vms, current, dom>>

NextSearch ==
    \/ \E userId \in { "admin_001", "client_001" } : Login(userId)
    \/ Logout
    \/ SearchKeystroke
    \/ \E i \in 1..MaxSessions : SearchTimerFires(i)
    \/ ClearFiltersClick
    \/ TickSearch

\* a timer that is due runs, and time passes
SpecSearch ==
    /\ Init
    /\ [][NextSearch]_vars
    /\ WF_vars(TickSearch)
    /\ \A i \in 1..MaxSessions : WF_vars(SearchTimerFires(i))

\* ---- the session: the page loaded over stored users and a stored session, and the
\* methods of window.__authService called directly
AddedUser == [id |-> "user_1", role |-> UserRole.CLIENT]
StoredUserLists == { NoItem, Item(DEFAULT_USERS), Item(Append(DEFAULT_USERS, AddedUser)) }
StoredSessions ==
    { NoItem, Item(<<DEFAULT_USERS[1]>>), Item(<<DEFAULT_USERS[2]>>), Item(<<AddedUser>>) }
AuthIds == { "admin_001", "client_001", "user_1", "ghost" }

\* the AuthService singleton is constructed, then the App
InitAuth ==
    \E storedUsers \in StoredUserLists, storedUser \in StoredSessions :
        /\ storageOk = TRUE
        /\ now = 0
        /\ LET ls == [FreshStorage EXCEPT !.users = storedUsers, !.currentUser = storedUser]
               list == initializeUsers(ls)
               session == restoreSession(list.users, list.ls)
               page == onAuthStateChange([vms |-> <<>>, current |-> 0, dom |-> LoadedPage],
                                         getAuthState(session.currentUser), session.ls, 0)
           IN  /\ users = list.users
               /\ currentUser = session.currentUser
               /\ localStorage = session.ls
               /\ vms = page.vms
               /\ current = page.current
               /\ dom = page.dom

RECURSIVE Deliver(_, _, _, _)
\* the App's subscriber runs once for every state notified
Deliver(page, notified, ls, t) ==
    IF notified = <<>> THEN page
    ELSE Deliver(onAuthStateChange(page, Head(notified), ls, t), Tail(notified), ls, t)

\* what a method of the AuthService leaves: its own fields, localStorage and the page
AuthCall(out) ==
    LET page == Deliver([vms |-> vms, current |-> current, dom |-> dom],
                        out.notified, out.ls, now)
    IN  /\ Len(page.vms) <= MaxSessions
        /\ users' = out.users
        /\ currentUser' = out.currentUser
        /\ localStorage' = out.ls
        /\ vms' = page.vms
        /\ current' = page.current
        /\ dom' = page.dom
        /\ UNCHANGED <<storageOk, now>>

ApiLogin(inputs) == \E userId \in inputs : AuthCall(login(localStorage, userId))
ApiLogout == AuthCall(logout(localStorage))
ApiReset == AuthCall(reset(localStorage))

NextAuth ==
    \/ ApiLogin(AuthIds)
    \/ ApiLogout
    \/ ApiReset
    \/ ApiRemoveUser({ "client_001", "user_1", "admin_001" })
    \/ StorageChange

SpecAuth == InitAuth /\ [][NextAuth]_vars

\* ---- an admin and a client taking turns on one page, MaxViews logins in all
NextTurns ==
    \/ \E userId \in { "admin_001", "client_001" } : LoginUpTo(userId, MaxViews)
    \/ Logout
    \/ AdminSubmit
    \/ ClientToggleClick
    \/ Tick

SpecTurns == Init /\ [][NextTurns]_vars

\* ---- the methods of StorageService called directly, as the guides show them
StoredLists == { <<>>, <<"a">> }

ApiSaveCategories ==
    /\ \E list \in StoredLists : localStorage' = saveCategories(localStorage, list).ls
    /\ UNCHANGED <<storageOk, users, currentUser, vms, current, dom, now>>

ApiSaveActivities ==
    /\ \E list \in StoredLists : localStorage' = saveActivities(localStorage, list).ls
    /\ UNCHANGED <<storageOk, users, currentUser, vms, current, dom, now>>

ApiSaveSubtasks ==
    /\ \E list \in StoredLists : localStorage' = saveSubtasks(localStorage, list).ls
    /\ UNCHANGED <<storageOk, users, currentUser, vms, current, dom, now>>

ApiClearAll ==
    /\ localStorage' = clearAll(localStorage).ls
    /\ UNCHANGED <<storageOk, users, currentUser, vms, current, dom, now>>

NextStore ==
    \/ \E userId \in { "admin_001", "client_001" } : Login(userId)
    \/ Logout
    \/ ApiCreateTask(ValidTaskData)
    \/ ApiSaveCategories
    \/ ApiSaveActivities
    \/ ApiSaveSubtasks
    \/ ApiClearAll
    \/ StorageChange

SpecStore == Init /\ [][NextStore]_vars

\* ================================================================== claims
ClientVMs == {i \in 1..Len(vms) : vms[i].kind = "client"}
AdminVMs == {i \in 1..Len(vms) : vms[i].kind = "admin"}
TaskIdsOf(i) == {vms[i].tasks[k].id : k \in 1..Len(vms[i].tasks)} \cup {GhostTask}
Count(s, x) == Cardinality({k \in 1..Len(s) : s[k] = x})
\* every element of sub occurs in s at least as often as in sub
SubCollection(sub, s) == \A k \in 1..Len(sub) : Count(sub, sub[k]) <= Count(s, sub[k])
Returned(W) == W.log[Len(W.log)].val
Rejected(W, i, op, arg) == W.log = <<LogEntry(i, "return", op, arg, FALSE)>>
NothingChanged(W) == W.vms = vms /\ W.ls = localStorage /\ W.dom = dom

\* C1: whatever the status filter and the search text, the tasks of
\* ClientViewModel.getViewData and the task of ClientViewModel.getTask are tasks of the
\* ViewModel's collection assigned to the logged-in user, and with nobody logged in
\* there are none.
C1_ClientScope ==
    \A i \in ClientVMs :
        /\ \A f \in StatusFilters \cup {vms[i].currentFilter},
              q \in Searches \cup {vms[i].currentSearch} :
              LET data == ClientGetViewData([vms[i] EXCEPT !.currentFilter = f,
                                                           !.currentSearch = q],
                                            currentUser, now)
              IN  /\ \A k \in 1..Len(data) : data[k].assignedClientId = currentUser.id
                  /\ SubCollection(data, vms[i].tasks)
                  /\ currentUser = NoUser => data = <<>>
        /\ \A id \in TaskIdsOf(i) :
              LET got == ClientGetTask(vms[i], currentUser, id)
              IN  /\ got # NoTask => /\ got[1].assignedClientId = currentUser.id
                                     /\ got[1] \in Range(vms[i].tasks)
                  /\ currentUser = NoUser => got = NoTask

\* a client looks at a collection that holds a task of theirs and a task that is not
C1_Witness ==
    /\ ClientCurrent
    /\ \E j, k \in 1..Len(vms[current].tasks) :
          /\ vms[current].tasks[j].id # vms[current].tasks[k].id
          /\ vms[current].tasks[j].assignedClientId = currentUser.id
          /\ vms[current].tasks[k].assignedClientId # currentUser.id
    /\ Len(ClientGetViewData(vms[current], currentUser, now)) = 1

ScopeViolation(i, id) ==
    \/ currentUser = NoUser
    \/ /\ getTaskById(vms[i].tasks, id) # 0
       /\ vms[i].tasks[getTaskById(vms[i].tasks, id)].assignedClientId # currentUser.id

\* C2: toggleTaskStatus and setTaskStatus of a ClientViewModel, called for a task that is
\* not assigned to the logged-in user or with nobody logged in, return false and leave
\* the ViewModel, localStorage and the page as they were, with no write and no
\* notification.
C2_ScopeViolationRejected ==
    \A i \in ClientVMs : \A id \in TaskIdsOf(i) :
        ScopeViolation(i, id) =>
            /\ LET W == toggleTaskStatus(World(NoForm), i, id)
               IN  Rejected(W, i, "toggleTaskStatus", id) /\ NothingChanged(W)
            /\ \A st \in StatusInputs :
                  LET W == ClientSetTaskStatus(World(NoForm), i, id, st)
                  IN  Rejected(W, i, "setTaskStatus", id) /\ NothingChanged(W)

\* a logged-in client whose ViewModel holds a task assigned to somebody else
C2_Witness ==
    /\ ClientCurrent
    /\ \E k \in 1..Len(vms[current].tasks) :
          /\ vms[current].tasks[k].assignedClientId \notin {Null, currentUser.id}
          /\ ScopeViolation(current, vms[current].tasks[k].id)
          /\ Returned(toggleTaskStatus(World(NoForm), current, vms[current].tasks[k].id)) = FALSE

\* what create, update, delete and assign decide of a collection: everything but the
\* status and the completion date of its tasks
Content(tasks) == [k \in 1..Len(tasks) |-> [tasks[k] EXCEPT !.status = "", !.completedAt = NullDate]]

\* C3: a step taken while the logged-in user is not an admin (a client, or nobody)
\* leaves the content of localStorage's tasks and of every ViewModel's collection as it
\* was, but for the status and completion date of tasks.
C3_AdminOnly ==
    [][currentUser.role # UserRole.ADMIN =>
          /\ Content(loadTasks(localStorage')) = Content(loadTasks(localStorage))
          /\ \A i \in 1..Len(vms) : Content(vms'[i].tasks) = Content(vms[i].tasks)]_vars

\* a client, logged in after an admin whose View still listens, has completed a task
\* from the page
C3_Witness ==
    /\ ClientCurrent /\ ClientVisible /\ ~AdminVisible
    /\ AdminVMs # {}
    /\ \E i \in AdminVMs, k \in 1..Len(vms[current].tasks) :
          /\ vms[current].tasks[k].status = TaskStatus.COMPLETED
          /\ k <= Len(vms[i].tasks)
          /\ vms[i].tasks[k].id = vms[current].tasks[k].id
          /\ vms[i].tasks[k].status = TaskStatus.PENDING

\* C4: only the ViewModel of the current session handles input: a step changes no
\* ViewModel other than App.currentViewModel.
C4_SingleWriter ==
    [][\A i \in 1..Len(vms) : i # current => vms'[i] = vms[i]]_vars

\* what each command of the ViewModel vms[i] would do in the current state, for every
\* argument tried
UpdateInputs == { [status |-> "completed"], [title |-> <<"B">>], [title |-> <<>>] }
AssignInputs == { "client_001", "ghost", "", Null }

Commands(i) ==
    IF vms[i].kind = "admin"
    THEN {createTask(World(NoForm), i, d, r) :
             d \in ValidTaskData \cup InvalidTaskData, r \in 0..MaxRandom}
         \cup {updateTask(World(NoForm), i, id, u) : id \in TaskIdsOf(i), u \in UpdateInputs}
         \cup {deleteTask(World(NoForm), i, id) : id \in TaskIdsOf(i)}
         \cup {assignTask(World(NoForm), i, id, c) : id \in TaskIdsOf(i), c \in AssignInputs}
         \cup {AdminSetTaskStatus(World(NoForm), i, id, st) : id \in TaskIdsOf(i), st \in StatusInputs}
    ELSE {toggleTaskStatus(World(NoForm), i, id) : id \in TaskIdsOf(i)}
         \cup {ClientSetTaskStatus(World(NoForm), i, id, st) : id \in TaskIdsOf(i), st \in StatusInputs}

SaveFailed(W) == \E k \in 1..Len(W.log) : W.log[k].ev = "save" /\ ~W.log[k].val

\* C5: a command that returns true has written once, then notified once, then returned,
\* all for its own ViewModel; a write that succeeded stored the serialised collection
\* as mutated, and localStorage held exactly that when the subscribers were notified.
C5_MutatePersistNotify ==
    \A i \in 1..Len(vms) : \A W \in Commands(i) :
        Returned(W) = TRUE =>
            /\ Len(W.log) = 3
            /\ W.log[1].ev = "save" /\ W.log[1].vm = i
            /\ W.log[2].ev = "notify" /\ W.log[2].vm = i
            /\ W.log[3].ev = "return" /\ W.log[3].vm = i
            /\ W.log[1].val => /\ W.log[2].val
                               /\ W.ls.tasks = Item(toArray(W.vms[i].tasks))

\* an admin has created and stored a task, and deleting it would succeed
C5_Witness ==
    /\ AdminCurrent /\ storageOk
    /\ Len(vms[current].tasks) = 1
    /\ localStorage.tasks = Item(toArray(vms[current].tasks))
    /\ LET W == deleteTask(World(NoForm), current, vms[current].tasks[1].id)
       IN  Returned(W) = TRUE /\ W.log[2].val /\ W.ls.tasks = Item(<<>>)

\* C6: a command whose write failed does not return what a persisted success returns.
C6_FailureSurfaced ==
    \A i \in 1..Len(vms) : \A W \in Commands(i) :
        SaveFailed(W) => Returned(W) # TRUE

AllTasks ==
    UNION {Range(vms[i].tasks) : i \in 1..Len(vms)}

\* C7: in every task of every ViewModel, and in every task record of localStorage,
\* completedAt is non-null exactly when status is completed.
C7_CompletedAtIffCompleted ==
    /\ \A task \in AllTasks : (task.completedAt # NullDate) <=> (task.status = TaskStatus.COMPLETED)
    /\ \A obj \in Range(loadTasks(localStorage)) :
          (obj.completedAt # NullDate) <=> (obj.status = TaskStatus.COMPLETED)

\* a ViewModel of a later session has loaded a completed task, and one that was reopened
C7_Witness ==
    /\ Len(vms) = 2
    /\ \E task \in Range(vms[2].tasks) :
          task.status = TaskStatus.COMPLETED /\ task.completedAt = DateOf(1)
    /\ \E task \in Range(vms[2].tasks) :
          task.status # TaskStatus.COMPLETED /\ task.completedAt = NullDate
    /\ \E obj \in Range(loadTasks(localStorage)) : obj.completedAt = IsoOf(1)

\* C8: AdminViewModel.createTask with no title, an empty title or a title of blanks
\* returns false and changes nothing: no task added, no write, no notification.
C8_CreateTaskRejectsBlankTitle ==
    \A i \in AdminVMs, taskData \in InvalidTaskData, random \in 0..MaxRandom :
        LET W == createTask(World(NoForm), i, taskData, random)
        IN  Rejected(W, i, "createTask", NoTask) /\ NothingChanged(W)

\* an admin whose collection already holds a task, where a blank title is refused and
\* a proper one accepted
C8_Witness ==
    /\ AdminCurrent
    /\ Len(vms[current].tasks) = 1
    /\ Returned(createTask(World(NoForm), current, [title |-> <<" ">>], 0)) = FALSE
    /\ Returned(createTask(World(NoForm), current, [title |-> <<" ", "a">>], 0)) = TRUE

\* C9: every task of every ViewModel has a non-empty title.
C9_TitleNonEmpty ==
    \A task \in AllTasks : task.title # <<>>

\* C10: no ViewModel's collection holds two tasks with the same id.
C10_UniqueIds ==
    \A i \in 1..Len(vms) : \A j, k \in 1..Len(vms[i].tasks) :
        j # k => vms[i].tasks[j].id # vms[i].tasks[k].id

\* C11: every non-null assignedClientId, of a task of a ViewModel or of a task record of
\* localStorage, is the id of a user of AuthService.
C11_AssigneeExists ==
    /\ \A task \in AllTasks :
          task.assignedClientId # Null => getUserById(task.assignedClientId) # 0
    /\ \A obj \in Range(loadTasks(localStorage)) :
          obj.assignedClientId # Null => getUserById(obj.assignedClientId) # 0

\* C12: every task's priority is low, medium or high, and in the statistics of every
\* AdminViewModel highPriority + mediumPriority + lowPriority equals total.
C12_PriorityEnum ==
    /\ \A task \in AllTasks :
          task.priority \in {TaskPriority.LOW, TaskPriority.MEDIUM, TaskPriority.HIGH}
    /\ \A i \in AdminVMs :
          LET st == getStatistics(vms[i].tasks, now)
          IN  st.highPriority + st.mediumPriority + st.lowPriority = st.total

\* C13: a task serialised with toJSON and rebuilt with fromJSON equals the original in
\* all ten fields, a null dueDate and a null completedAt stay null, and a collection
\* written with toArray and saveTasks and read with loadTasks and loadFromArray is the
\* same collection.
TaskFields == {"id", "title", "description", "status", "assignedClientId", "createdBy",
               "createdAt", "dueDate", "priority", "completedAt"}
RoundTrip(task) == fromJSON(toJSON(task))
StoredAndLoaded(tasks) == loadFromArray(loadTasks(saveTasks(localStorage, toArray(tasks)).ls))
C13_RoundTrip ==
    \A i \in 1..Len(vms) :
        /\ \A task \in Range(vms[i].tasks) :
              /\ DOMAIN RoundTrip(task) = TaskFields
              /\ \A f \in TaskFields : RoundTrip(task)[f] = task[f]
              /\ toJSON(task).dueDate = NullDate <=> task.dueDate = NullDate
              /\ toJSON(task).completedAt = NullDate <=> task.completedAt = NullDate
        /\ storageOk => StoredAndLoaded(vms[i].tasks) = vms[i].tasks
C13_Witness ==
    \E i \in 1..Len(vms) : \E a, b \in Range(vms[i].tasks) :
        /\ a.dueDate = NullDate /\ a.completedAt = NullDate
        /\ b.dueDate # NullDate /\ b.completedAt = DateOf(now)
        /\ RoundTrip(a) = a /\ RoundTrip(b) = b
        /\ StoredAndLoaded(vms[i].tasks) = vms[i].tasks

\* C14: the summary counts are those of the scoped set (admin: all tasks, client: the
\* tasks assigned to the current user); setStatusFilter, setClientFilter, setSearch and
\* clearFilters leave the counts, the collection and the storage as they were and change
\* the filters and the rendered list only.
ClientFilters == {"all", "unassigned", "client_001", "client_002"}
ViewCounts(vm) ==
    IF vm.kind = "admin" THEN AdminStatistics(vm, now) ELSE ClientCounts(vm, currentUser, now)
ViewTasks(vm) ==
    IF vm.kind = "admin" THEN AdminGetViewData(vm, now) ELSE ClientGetViewData(vm, currentUser, now)
FilterCommands(i) ==
    { setStatusFilter(World(NoForm), i, f) : f \in StatusFilters }
    \cup { setSearch(World(NoForm), i, q) : q \in Searches }
    \cup { clearFilters(World(NoForm), i) }
    \cup (IF vms[i].kind = "admin"
          THEN { setClientFilter(World(NoForm), i, c) : c \in ClientFilters } ELSE {})
\* the tasks of the scoped set, as positions of the stored collection
Scoped(vm) ==
    { k \in 1..Len(vm.tasks) : vm.kind = "admin" \/ vm.tasks[k].assignedClientId = currentUser.id }
ScopedWith(vm, status) == Cardinality({ k \in Scoped(vm) : vm.tasks[k].status = status })
C14_CountsOverScopedSet ==
    \A i \in 1..Len(vms) :
        /\ ViewCounts(vms[i]).total = Cardinality(Scoped(vms[i]))
        /\ ViewCounts(vms[i]).pending = ScopedWith(vms[i], TaskStatus.PENDING)
        /\ ViewCounts(vms[i]).inProgress = ScopedWith(vms[i], TaskStatus.IN_PROGRESS)
        /\ ViewCounts(vms[i]).completed = ScopedWith(vms[i], TaskStatus.COMPLETED)
        /\ ViewCounts(vms[i]).overdue
              = Cardinality({ k \in Scoped(vms[i]) : isOverdue(vms[i].tasks[k], now) })
        /\ \A W \in FilterCommands(i) :
              /\ ViewCounts(W.vms[i]) = ViewCounts(vms[i])
              /\ W.vms[i].tasks = vms[i].tasks
              /\ W.ls = localStorage
              /\ \A j \in 1..Len(vms) : j # i => W.vms[j] = vms[j]
C14_Witness ==
    /\ current # 0
    /\ vms[current].currentFilter = TaskStatus.COMPLETED
    /\ ViewCounts(vms[current]).total = 2
    /\ Len(ViewTasks(vms[current])) = 1
    /\ \E W \in FilterCommands(current) :
          /\ Len(ViewTasks(W.vms[current])) = 2
          /\ ViewCounts(W.vms[current]) = ViewCounts(vms[current])

\* C15: completionRate of getStatistics is an integer between 0 and 100, the integer
\* nearest to 100 * completed / total (a half rounds up); for the empty collection every
\* count and completionRate are 0 and the derived list is empty.
CompletedIn(tasks) == Cardinality({ k \in 1..Len(tasks) : tasks[k].status = TaskStatus.COMPLETED })
Instants == 0..(MaxTime + 2)
C16_IsOverdue ==
    \A task \in AllTasks : \A t \in Instants :
        isOverdue(task, t) <=> /\ task.dueDate # NullDate
                               /\ task.dueDate[2] < t
                               /\ task.status # TaskStatus.COMPLETED
C16_Witness ==
    \E a, b \in AllTasks :
        /\ a.dueDate = DateOf(0) /\ a.status = TaskStatus.PENDING
        /\ isOverdue(a, now) /\ ~isOverdue(a, 0)
        /\ b.dueDate = DateOf(0) /\ b.status = TaskStatus.COMPLETED /\ ~isOverdue(b, now)

\* C17: completing a task that is not completed and whose due date is past (setTaskStatus
\* with completed, or a toggle) sets completedAt to the time of the call and takes the task
\* out of the overdue count; reopening a completed task (a toggle, or setTaskStatus with
\* another status) sets completedAt to null and, when the due date is past, puts the task
\* back into the overdue count.
Permitted(i, k) == vms[i].kind = "admin" \/ vms[i].tasks[k].assignedClientId = currentUser.id
Completing(i, id) ==
    IF vms[i].kind = "admin"
    THEN { AdminSetTaskStatus(World(NoForm), i, id, TaskStatus.COMPLETED) }
    ELSE { ClientSetTaskStatus(World(NoForm), i, id, TaskStatus.COMPLETED),
           toggleTaskStatus(World(NoForm), i, id) }
Reopening(i, id) ==
    IF vms[i].kind = "admin"
    THEN { AdminSetTaskStatus(World(NoForm), i, id, st) :
             st \in { TaskStatus.PENDING, TaskStatus.IN_PROGRESS } }
    ELSE { ClientSetTaskStatus(World(NoForm), i, id, st) :
             st \in { TaskStatus.PENDING, TaskStatus.IN_PROGRESS } }
         \cup { toggleTaskStatus(World(NoForm), i, id) }
DuePast(task) == task.dueDate # NullDate /\ task.dueDate[2] < now
OverdueIds(vm) == { task.id : task \in Range(getOverdueTasks(vm.tasks, now)) }
C17_StatusChangeAndOverdue ==
    \A i \in 1..Len(vms) : \A k \in 1..Len(vms[i].tasks) :
        LET task == vms[i].tasks[k]
        IN  Permitted(i, k) =>
            /\ task.status # TaskStatus.COMPLETED /\ DuePast(task) =>
                  /\ task.id \in OverdueIds(vms[i])
                  /\ \A W \in Completing(i, task.id) :
                        /\ W.vms[i].tasks[k].status = TaskStatus.COMPLETED
                        /\ W.vms[i].tasks[k].completedAt = DateOf(now)
                        /\ task.id \notin OverdueIds(W.vms[i])
                        /\ ViewCounts(W.vms[i]).overdue = ViewCounts(vms[i]).overdue - 1
            /\ task.status = TaskStatus.COMPLETED =>
                  /\ task.id \notin OverdueIds(vms[i])
                  /\ \A W \in Reopening(i, task.id) :
                        /\ W.vms[i].tasks[k].status # TaskStatus.COMPLETED
                        /\ W.vms[i].tasks[k].completedAt = NullDate
                        /\ task.id \in OverdueIds(W.vms[i]) <=> DuePast(task)
                        /\ ViewCounts(W.vms[i]).overdue
                              = ViewCounts(vms[i]).overdue + (IF DuePast(task) THEN 1 ELSE 0)
C17_Witness ==
    \E i \in 1..Len(vms) : \E k, m \in 1..Len(vms[i].tasks) :
        /\ Permitted(i, k) /\ Permitted(i, m)
        /\ vms[i].tasks[k].status = TaskStatus.IN_PROGRESS /\ DuePast(vms[i].tasks[k])
        /\ vms[i].tasks[m].status = TaskStatus.COMPLETED /\ DuePast(vms[i].tasks[m])
        /\ vms[i].tasks[m].completedAt = DateOf(now)
        /\ ViewCounts(vms[i]).overdue = 1
        /\ \E W \in Completing(i, vms[i].tasks[k].id) : ViewCounts(W.vms[i]).overdue = 0
        /\ \E W \in Reopening(i, vms[i].tasks[m].id) : ViewCounts(W.vms[i]).overdue = 2

\* C18: the list of AdminViewModel.getViewData holds exactly the stored tasks that pass
\* the client filter ("all": every task, "unassigned": assignedClientId null, otherwise
\* assignedClientId equal to the filter) and the status filter ("all": every task,
\* otherwise status equal to the filter), whichever of the two filters was set first.
PassesClient(task, c) ==
    \/ c = "all"
    \/ c = "unassigned" /\ task.assignedClientId = Null
    \/ c \notin {"all", "unassigned"} /\ task.assignedClientId = c
PassesStatus(task, f) == f = "all" \/ task.status = f
ClientThenStatus(i, c, f) == setStatusFilter(setClientFilter(World(NoForm), i, c), i, f)
StatusThenClient(i, c, f) == setClientFilter(setStatusFilter(World(NoForm), i, f), i, c)
ExactlyThePassing(list, tasks, c, f) ==
    /\ Range(list) = { task \in Range(tasks) : PassesClient(task, c) /\ PassesStatus(task, f) }
    /\ Len(list)
         = Cardinality({ k \in 1..Len(tasks) : PassesClient(tasks[k], c) /\ PassesStatus(tasks[k], f) })
SearchTexts == Searches \cup { <<"B">>, <<"a", "B">>, <<"A", "b">>, <<"b", "a">>, <<"c">> }
Contains(s, q) ==
    \E p \in 1..(Len(s) + 1) :
        /\ p + Len(q) - 1 <= Len(s)
        /\ \A j \in 1..Len(q) : s[p + j - 1] = q[j]
Found(task, q) ==
    \/ Contains(toLowerCase(task.title), toLowerCase(q))
    \/ Contains(toLowerCase(task.description), toLowerCase(q))
Searched(i, q) == ViewTasks(setSearch(World(NoForm), i, q).vms[i])
\* positions of the tasks listed when nothing is searched for
Listed(i) == { k \in Scoped(vms[i]) : PassesStatus(vms[i].tasks[k], vms[i].currentFilter) }
C19_Search ==
    \A i \in 1..Len(vms) :
        /\ \A q \in SearchTexts :
              /\ Range(Searched(i, q))
                   = { vms[i].tasks[k] : k \in { m \in Listed(i) : q = <<>> \/ Found(vms[i].tasks[m], q) } }
              /\ Len(Searched(i, q))
                   = Cardinality({ m \in Listed(i) : q = <<>> \/ Found(vms[i].tasks[m], q) })
        /\ \A q1, q2 \in SearchTexts :
              toLowerCase(q1) = toLowerCase(q2) => Searched(i, q1) = Searched(i, q2)
        /\ Len(Searched(i, <<>>)) = Cardinality(Listed(i))
C19_Witness ==
    \E i \in 1..Len(vms) :
        /\ Len(Searched(i, <<>>)) = 2
        /\ Len(Searched(i, <<"B">>)) = 1
        /\ Searched(i, <<"B">>) = Searched(i, <<"b">>)
        /\ Len(Searched(i, <<"A", "b">>)) = 1
        /\ Len(Searched(i, <<"A">>)) = 2
        /\ Len(Searched(i, <<"b", "a">>)) = 0

\* C20: the admin list is ordered by createdAt, newest first, and tasks of equal
\* createdAt are listed in the order they have in the stored collection.
PositionOf(tasks, task) == CHOOSE k \in 1..Len(tasks) : tasks[k] = task
C20_AdminOrder ==
    \A i \in AdminVMs :
        LET list == AdminGetViewData(vms[i], now)
        IN  \A p, q \in 1..Len(list) :
                p < q =>
                    /\ list[p].createdAt[2] >= list[q].createdAt[2]
                    /\ list[p].createdAt = list[q].createdAt =>
                          PositionOf(vms[i].tasks, list[p]) < PositionOf(vms[i].tasks, list[q])
C20_Witness ==
    \E i \in AdminVMs :
        /\ Len(vms[i].tasks) = 3
        /\ vms[i].tasks[1].createdAt = DateOf(0)
        /\ vms[i].tasks[2].createdAt = DateOf(MaxTime)
        /\ vms[i].tasks[3].createdAt = DateOf(0)
        /\ AdminGetViewData(vms[i], now) = <<vms[i].tasks[2], vms[i].tasks[1], vms[i].tasks[3]>>

\* C21: in the client list every overdue task precedes every task that is not overdue;
\* within each of the two groups a task with a due date precedes a task without one, tasks
\* with due dates are in ascending dueDate order and tasks without are in descending
\* createdAt order; the comparison is reflexive, antisymmetric in sign and transitive.
CompareShapes ==
    { DataTask(MaxTasks + 2, st, due, "client_001", [title |-> <<"a">>, description |-> <<>>], created) :
        st \in TaskStatusValues, due \in DataDueDates, created \in 0..MaxTime }
Sign(n) == IF n < 0 THEN -1 ELSE IF n > 0 THEN 1 ELSE 0
InClientOrder(a, b) ==
    /\ ~(~isOverdue(a, now) /\ isOverdue(b, now))
    /\ isOverdue(a, now) = isOverdue(b, now) =>
          /\ ~(a.dueDate = NullDate /\ b.dueDate # NullDate)
          /\ a.dueDate # NullDate /\ b.dueDate # NullDate => a.dueDate[2] <= b.dueDate[2]
          /\ a.dueDate = NullDate /\ b.dueDate = NullDate => a.createdAt[2] >= b.createdAt[2]
C22_ViewDataPure ==
    \A i \in 1..Len(vms) :
        LET first == ViewDataCall(World(NoForm), i)
            second == ViewDataCall(first.W, i)
        IN  /\ first.W = World(NoForm)
            /\ first.W.vms[i].tasks = vms[i].tasks
            /\ first.W.ls = localStorage
            /\ second.tasks = first.tasks
            /\ second.counts = first.counts
            /\ second.W = first.W
C22_Witness ==
    \E i \in AdminVMs :
        /\ Len(vms[i].tasks) = 2
        /\ vms[i].currentFilter = "all"
        /\ vms[i].tasks[1].createdAt[2] < vms[i].tasks[2].createdAt[2]
        /\ ViewDataCall(World(NoForm), i).tasks = <<vms[i].tasks[2], vms[i].tasks[1]>>
        /\ ViewDataCall(World(NoForm), i).W.vms[i].tasks = vms[i].tasks

\* C23: the search input is debounced. Each View has at most one timer pending, the one
\* set by its latest keystroke; setSearch runs only from that timer, not before
\* SEARCH_DELAY ms have passed since the View's latest keystroke, with the text the input
\* then holds; the only other change of the search text is its reset by the clear-filters
\* button; and a pending timer always ends in one such call.
PendingOf(i) == { tm \in dom.timers : tm.view = i }
TimerRan(i) ==
    \E tm \in PendingOf(i) :
        /\ tm \notin dom'.timers
        /\ vms'[i].searchTimeout = vms[i].searchTimeout
OnePendingTimer ==
    \A i \in 1..Len(vms) :
        /\ Cardinality(PendingOf(i)) <= 1
        /\ \A tm \in PendingOf(i) : tm.due = vms[i].searchTimeout
DebouncedStep ==
    \A i \in 1..Len(vms) :
        /\ TimerRan(i) =>
              /\ vms[i].searchTimeout <= now
              /\ PendingOf(i) = { Timer(i, vms[i].searchTimeout) }
              /\ vms'[i].currentSearch = dom.searchInput[vms[i].kind]
              /\ { tm \in dom'.timers : tm.view = i } = {}
        /\ vms'[i].currentSearch # vms[i].currentSearch =>
              TimerRan(i) \/ vms'[i].currentSearch = <<>>
C23_Debounce ==
    /\ []OnePendingTimer
    /\ [][DebouncedStep]_vars
    /\ \A i \in 1..MaxSessions :
          (i <= Len(vms) /\ PendingOf(i) # {}) ~> (i <= Len(vms) /\ PendingOf(i) = {})
C23_Witness ==
    \E i \in 1..Len(vms) :
        /\ vms[i].searchTimeout = ClockStep + SEARCH_DELAY
        /\ PendingOf(i) = {}
        /\ vms[i].currentSearch = <<"a", "b">>
        /\ dom.searchInput[vms[i].kind] = <<"a", "b">>

\* C24: every task action is logged: each task a ViewModel holds has an entry of the
\* stored activity log that names the task and a user as its author.
C24_ActionsLogged ==
    \A task \in AllTasks :
        \E activity \in Range(loadActivities(localStorage)) :
            /\ activity.taskId = task.id
            /\ getUserById(activity.userId) # 0

\* C25: an admin command that cannot be applied returns false, leaves the collections,
\* the storage and the page as they were and notifies nobody: updateTask, assignTask,
\* setTaskStatus and deleteTask with the id of no task, and assignTask with a non-null
\* clientId that is the id of no client.
IsClient(id) == \E k \in 1..Len(users) : users[k].id = id /\ users[k].role = UserRole.CLIENT
AssigneeInputs == { "client_001", "admin_001", "ghost" }
C25_RejectedChangesNothing ==
    \A i \in AdminVMs :
        /\ GhostTask \notin { vms[i].tasks[k].id : k \in 1..Len(vms[i].tasks) } =>
              /\ \A updates \in { [title |-> <<"b">>], [status |-> TaskStatus.COMPLETED] } :
                    LET W == updateTask(World(NoForm), i, GhostTask, updates)
                    IN  Rejected(W, i, "updateTask", GhostTask) /\ NothingChanged(W)
              /\ \A c \in AssigneeInputs \cup { Null } :
                    LET W == assignTask(World(NoForm), i, GhostTask, c)
                    IN  Rejected(W, i, "assignTask", GhostTask) /\ NothingChanged(W)
              /\ \A st \in TaskStatusValues :
                    LET W == AdminSetTaskStatus(World(NoForm), i, GhostTask, st)
                    IN  Rejected(W, i, "setTaskStatus", GhostTask) /\ NothingChanged(W)
              /\ LET W == deleteTask(World(NoForm), i, GhostTask)
                 IN  Rejected(W, i, "deleteTask", GhostTask) /\ NothingChanged(W)
        /\ \A k \in 1..Len(vms[i].tasks), c \in AssigneeInputs :
              ~IsClient(c) =>
                  LET W == assignTask(World(NoForm), i, vms[i].tasks[k].id, c)
                  IN  Rejected(W, i, "assignTask", vms[i].tasks[k].id) /\ NothingChanged(W)

\* C26: the status of every task is pending, in_progress or completed; setTaskStatus of
\* either ViewModel and updateTask, given a status outside these three, leave the task's
\* status and completedAt as they were and do not return true.
InvalidStatusCalls(i, id) ==
    IF vms[i].kind = "admin"
    THEN { AdminSetTaskStatus(World(NoForm), i, id, "bogus"),
           updateTask(World(NoForm), i, id, [status |-> "bogus"]) }
    ELSE { ClientSetTaskStatus(World(NoForm), i, id, "bogus") }
StatusKept(W, i, k) ==
    /\ W.vms[i].tasks[k].status = vms[i].tasks[k].status
    /\ W.vms[i].tasks[k].completedAt = vms[i].tasks[k].completedAt
C26_StatusEnum ==
    /\ \A task \in AllTasks : task.status \in TaskStatusValues
    /\ \A i \in 1..Len(vms) : \A k \in 1..Len(vms[i].tasks) :
          \A W \in InvalidStatusCalls(i, vms[i].tasks[k].id) :
              /\ StatusKept(W, i, k)
              /\ Returned(W) # TRUE

\* ---- C27
\* what login leaves for an id of the user list, and for any other id
LoginOfKnown(out, user) ==
    /\ out.success
    /\ out.currentUser = user
    /\ loadCurrentUser(out.ls) = user
    /\ Len(out.notified) = 1
    /\ out.notified[1].isAuthenticated
    /\ out.notified[1].currentUser = user
LoginOfUnknown(out) ==
    /\ ~out.success
    /\ out.currentUser = currentUser
    /\ out.ls = localStorage
    /\ out.notified = <<>>
LoggedOut(out) ==
    /\ out.currentUser = NoUser
    /\ ~out.ls.currentUser.present
    /\ Len(out.notified) = 1
    /\ ~out.notified[1].isAuthenticated

\* C27: login with the id of an existing user makes that user the current user, stores
\* the session and notifies the subscribers once with isAuthenticated true; login with
\* any other id reports no success, changes neither the current user nor the stored
\* session and notifies nobody; logout leaves no current user and no stored session and
\* notifies once. In every state isAuthenticated is the same as having a current user,
\* the app screen is displayed exactly when a user is authenticated, and the admin
\* dashboard is displayed exactly when that user is an admin.
C27_SessionMachine ==
    /\ isAuthenticated <=> currentUser # NoUser
    /\ dom.appScreen <=> isAuthenticated
    /\ AdminVisible <=> (isAuthenticated /\ currentUser.role = UserRole.ADMIN)
    /\ \A userId \in AuthIds :
          IF getUserById(userId) # 0
          THEN LoginOfKnown(login(localStorage, userId), users[getUserById(userId)])
          ELSE LoginOfUnknown(login(localStorage, userId))
    /\ LoggedOut(logout(localStorage))

\* ---- C28
InList(us, user) == \E k \in 1..Len(us) : us[k] = user
IdInList(us, id) == \E k \in 1..Len(us) : us[k].id = id

\* what a page load over the present localStorage would restore
Restored ==
    LET list == initializeUsers(localStorage)
        session == restoreSession(list.users, list.ls)
        storedUser == loadCurrentUser(localStorage)
    IN  IF storedUser # NoUser /\ IdInList(list.users, storedUser.id)
        THEN /\ session.currentUser.id = storedUser.id
             /\ InList(list.users, session.currentUser)
             /\ session.ls = list.ls
        ELSE /\ session.currentUser = NoUser
             /\ ~session.ls.currentUser.present

\* C28: the current user is null or a member of the user list. removeUser with the id of
\* the user logged in returns false and leaves the list as it is, reset leaves nobody
\* logged in and the default list, and a page load restores the stored session only when
\* its user id is in the user list, otherwise it clears the stored session and nobody is
\* logged in.
C28_CurrentUserInList ==
    /\ currentUser = NoUser \/ InList(users, currentUser)
    /\ isAuthenticated =>
          LET out == removeUser(localStorage, currentUser.id)
          IN  ~out.ok /\ out.users = users /\ out.ls = localStorage
    /\ LET out == reset(localStorage)
       IN  /\ out.currentUser = NoUser
           /\ out.users = DEFAULT_USERS
           /\ ~out.ls.currentUser.present
    /\ Restored

\* somebody is logged in while the stored session is that of a user removed since
C28_Witness ==
    /\ isAuthenticated
    /\ loadCurrentUser(localStorage) = AddedUser
    /\ ~IdInList(users, AddedUser.id)
    /\ ~IdInList(loadUsers(localStorage), AddedUser.id)

\* ---- C29
\* the tasks localStorage holds that a client has completed: in SpecTurns the admin only
\* creates tasks, so a stored status of completed was written by the client's toggle
StoredCompleted(ls) == { task \in Range(loadTasks(ls)) : task.status = TaskStatus.COMPLETED }
StillStored(ls, task) ==
    \E other \in Range(loadTasks(ls)) :
        /\ other.id = task.id
        /\ other.status = task.status
        /\ other.completedAt = task.completedAt

\* no second task of that id is stored: the step created another task, not this one again
OtherTaskOnly(ls, task) ==
    Cardinality({ k \in 1..Len(loadTasks(ls)) : loadTasks(ls)[k].id = task.id }) <= 1

\* C29: a status change of a client that localStorage holds is still held after every
\* later login, logout and creation of another task by the admin, whatever happened in
\* between: only a step taken on the client's dashboard may change it.
C29_NoLostUpdate ==
    [][~ClientVisible =>
          \A task \in StoredCompleted(localStorage) :
              OtherTaskOnly(localStorage', task) => StillStored(localStorage', task)]_vars

\* ---- C30
\* what every load operation returns over the storage ls
Loaded(ls) ==
    [tasks |-> loadTasks(ls), users |-> loadUsers(ls), currentUser |-> loadCurrentUser(ls),
     categories |-> loadCategories(ls), activities |-> loadActivities(ls),
     subtasks |-> loadSubtasks(ls)]

\* C30: when clearAll has returned true none of the six storage keys holds a value, and
\* every load operation returns its empty result.
C30_ClearAll ==
    LET out == clearAll(localStorage)
    IN  out.ok =>
          /\ out.ls = FreshStorage
          /\ Loaded(out.ls) = [tasks |-> <<>>, users |-> <<>>, currentUser |-> NoUser,
                               categories |-> <<>>, activities |-> <<>>, subtasks |-> <<>>]
====
